---- MODULE Spec2Model ----
(***************************************************************************)
(* Model of pin_table_gen.py: the grid assignment (find_free_pin,          *)
(* assign_pin, compute_pin_map) and the table renderer                     *)
(* (generate_pin_map_svg).                                                 *)
(*                                                                         *)
(* One behaviour is one call generate_pin_map_svg(pin_definitions,         *)
(* number_of_columns, number_of_rows, ...).  The arguments are chosen in   *)
(* Init; every later step is one piece of the call: the prologue, one      *)
(* iteration of one of the three for loops, the return.                    *)
(*                                                                         *)
(* Conventions                                                             *)
(*  - a pin definition (a dict) is a record; a key the dict lacks has the  *)
(*    value Missing; pin_number, the one key whose presence the code       *)
(*    tests with "in", has the flag has_num beside it;                     *)
(*  - pin_map (a dict, which iterates in insertion order) is a sequence of *)
(*    entries [key |-> <<x, y>>, pin |-> index into pin_definitions];      *)
(*  - the drawing is the sequence of elements added to it; the fields pin  *)
(*    and cell of an element say which pin and which cell it was drawn for;*)
(*  - a text is inserted at half-integer coordinates (x + w/2, y + h/2):   *)
(*    its fields x2, y2 hold twice the coordinates.                        *)
(***************************************************************************)
EXTENDS Integers, Sequences, FiniteSets

\* ---------------------------------------------------------------- bounds
MaxPins == 4            \* longest list of plain pins
MaxNum == 4             \* largest explicit pin_number of a plain pin
MaxCols == 2            \* largest number_of_columns
MaxRows == 2            \* largest number_of_rows argument
MaxRenderPins == 2      \* longest list of pins of every kind
MaxRenderNum == 1       \* largest explicit pin_number in such a list

\* ------------------------------------------------------- program constants
DefaultPinNameColumnWidth == 40
DefaultUsageColumnWidth == 80
DefaultRowHeight == 20
DefaultColumnSpacing == 0

Missing == "<missing>"  \* the dict has no such key (get() gives None)
NoRoom == 0 - 1         \* find_free_pin raised RuntimeError('No room...')

VARIABLES
    pin_definitions,    \* argument: sequence of pin records
    number_of_columns,  \* argument
    number_of_rows,     \* argument, reassigned by the prologue
    opts,               \* keyword arguments: the widths, height, spacing, span
    pin_map,            \* the dict compute_pin_map builds
    size,               \* size of the drawing, <<width, height>>
    drawing,            \* elements added to the drawing so far
    pc,                 \* "start", "explicit", "auto", "render", "done", "error"
    i,                  \* position of the running for loop (1-based)
    err                 \* the exception that ended the call, or "none"

vars == <<pin_definitions, number_of_columns, number_of_rows, opts,
          pin_map, size, drawing, pc, i, err>>

\* ------------------------------------------------------------ colour tables
pin_type_colors == [t \in {"io"} |-> <<"green", "black">>]
usage_type_colors == [t \in {"uart"} |-> <<"blue", "white">>]

\* type(color) == 'int' compares a type with a string and is never true, so
\* the else branch is always taken and the colour is returned unchanged.
conv_to_svg_color(color) == color

\* ------------------------------------------------------------------ pin_map
Keys(m) == {m[k].key : k \in 1..Len(m)}

\* m[key]: the pin stored under key, 0 when key is no key of m
Lookup(m, key) ==
    IF key \in Keys(m)
    THEN m[CHOOSE k \in 1..Len(m) : m[k].key = key].pin
    ELSE 0

\* dict.update({key: pin}): an existing key keeps its place and gets the new
\* value, a new key is appended
dict_update(m, key, pin) ==
    IF key \in Keys(m)
    THEN [k \in 1..Len(m) |-> IF m[k].key = key THEN [key |-> key, pin |-> pin] ELSE m[k]]
    ELSE Append(m, [key |-> key, pin |-> pin])

\* the rows one column is scanned in: range(0, y_max) in an even column,
\* reversed(range(0, y_max)) in an odd one
RowScan(cx, y_max) ==
    IF cx % 2 = 0 THEN [j \in 1..y_max |-> j - 1]
                  ELSE [j \in 1..y_max |-> y_max - j]

\* the first row of column cx, in scan order, that is free; -1 when none is
FirstFreeRow(m, cx, y_max) ==
    LET scan == RowScan(cx, y_max)
        free == {j \in 1..y_max : <<cx, scan[j]>> \notin Keys(m)}
    IN  IF free = {} THEN 0 - 1
        ELSE scan[CHOOSE j \in free : \A j2 \in free : j <= j2]

\* faulty variant of find_free_pin: every column is scanned top to bottom
find_free_pin_no_reverse(m, x_max, y_max) ==
    LET cols == {cx \in 0..x_max :
                    \E cy \in 0..(y_max - 1) : <<cx, cy>> \notin Keys(m)}
    IN  IF cols = {} THEN NoRoom
        ELSE LET cx == CHOOSE c \in cols : \A c2 \in cols : c <= c2
                 cy == CHOOSE r \in 0..(y_max - 1) :
                          /\ <<cx, r>> \notin Keys(m)
                          /\ \A r2 \in 0..(y_max - 1) :
                                <<cx, r2>> \notin Keys(m) => r <= r2
             IN  cx * y_max + cy + 1

\* faulty variant of find_free_pin: the first cell is returned, taken or not
find_free_pin_ignore_map(m, x_max, y_max) ==
    IF y_max = 0 THEN NoRoom ELSE 1

\* find_free_pin: columns range(0, x_max + 1), that is 0..x_max inclusive
find_free_pin(m, x_max, y_max) ==
    LET cols == {cx \in 0..x_max : FirstFreeRow(m, cx, y_max) # 0 - 1}
    IN  IF cols = {} THEN NoRoom
        ELSE LET cx == CHOOSE c \in cols : \A c2 \in cols : c <= c2
             IN  cx * y_max + FirstFreeRow(m, cx, y_max) + 1

\* pin.get('pin_number'); 0 stands for None (both are falsy)
GetPinNumber(pin) == IF pin.has_num THEN pin.pin_number ELSE 0

\* faulty variant of assign_pin: x and y are exchanged
assign_pin_swapped(m, idx, pin, x_max, y_max, auto_pin_assign) ==
    LET got == GetPinNumber(pin)
        pin_num == IF got # 0 THEN got
                   ELSE IF auto_pin_assign THEN find_free_pin(m, x_max, y_max)
                   ELSE 0
    IN  IF pin_num = NoRoom THEN [map |-> m, raised |-> TRUE]
        ELSE IF pin_num = 0 THEN [map |-> m, raised |-> FALSE]
        ELSE [map |-> dict_update(m, <<(pin_num - 1) % y_max,
                                       (pin_num - 1) \div y_max>>, idx),
              raised |-> FALSE]

\* faulty variant of assign_pin: a taken cell keeps its pin
assign_pin_first_wins(m, idx, pin, x_max, y_max, auto_pin_assign) ==
    LET got == GetPinNumber(pin)
        pin_num == IF got # 0 THEN got
                   ELSE IF auto_pin_assign THEN find_free_pin(m, x_max, y_max)
                   ELSE 0
        key == <<(pin_num - 1) \div y_max, (pin_num - 1) % y_max>>
    IN  IF pin_num = NoRoom THEN [map |-> m, raised |-> TRUE]
        ELSE IF pin_num = 0 THEN [map |-> m, raised |-> FALSE]
        ELSE [map |-> IF key \in Keys(m) THEN m ELSE dict_update(m, key, idx),
              raised |-> FALSE]

\* assign_pin: the map after the call, and whether find_free_pin raised.
\* idx is the position of pin in pin_definitions (the value stored).
assign_pin(m, idx, pin, x_max, y_max, auto_pin_assign) ==
    LET got == GetPinNumber(pin)
        pin_num == IF got # 0 THEN got
                   ELSE IF auto_pin_assign THEN find_free_pin(m, x_max, y_max)
                   ELSE 0
    IN  IF pin_num = NoRoom THEN [map |-> m, raised |-> TRUE]
        ELSE IF pin_num = 0 THEN [map |-> m, raised |-> FALSE]
        ELSE [map |-> dict_update(m, <<(pin_num - 1) \div y_max,
                                       (pin_num - 1) % y_max>>, idx),
              raised |-> FALSE]

\* the next pin at or after position from that has / has not a pin_number
\* (the filter() the for loop runs over); 0 when the loop is over
NextExplicit(from) ==
    LET S == {j \in from..Len(pin_definitions) : pin_definitions[j].has_num}
    IN  IF S = {} THEN 0 ELSE CHOOSE j \in S : \A j2 \in S : j <= j2

NextAuto(from) ==
    LET S == {j \in from..Len(pin_definitions) : ~pin_definitions[j].has_num}
    IN  IF S = {} THEN 0 ELSE CHOOSE j \in S : \A j2 \in S : j <= j2

\* ----------------------------------------------------------------- renderer
column_width == opts.pin_name_column_width + opts.usage_column_width

\* pin_type_colors.get(pin_type, ('black', 'white'))
pin_color_of(pin_type) ==
    IF pin_type \in DOMAIN pin_type_colors THEN pin_type_colors[pin_type]
    ELSE <<"black", "white">>

\* faulty variant of span_pin_cell: the usage is not looked at
span_pin_cell_any_pin(pin) == opts.span_pin_name_without_usage

\* span_pin_name_without_usage and pin_usage is None
span_pin_cell(pin) ==
    opts.span_pin_name_without_usage /\ pin.usage = Missing

\* column_width if span_pin_cell else pin_name_column_width
pin_name_cell_width(span) ==
    IF span THEN column_width ELSE opts.pin_name_column_width

\* faulty variant of pin_start_x: column 0 is laid out like the others
pin_start_x_no_swap(x, column_index, span) ==
    IF span THEN x ELSE x + opts.usage_column_width

\* x if column_index == 0 or span_pin_cell else x + usage_column_width
pin_start_x(x, column_index, span) ==
    IF column_index = 0 \/ span THEN x ELSE x + opts.usage_column_width

\* x + pin_name_column_width if column_index == 0 else x
usage_start_x(x, column_index) ==
    IF column_index = 0 THEN x + opts.pin_name_column_width ELSE x

\* One iteration of the loop over pin_map.items(): the elements it adds to the
\* drawing and the KeyError that ends it, if any.
RenderEntry(e) ==
    LET column_index == e.key[1]
        row_index == e.key[2]
        pin == pin_definitions[e.pin]
        x == (column_width + opts.column_spacing) * column_index
        y == opts.row_height * row_index
        pin_color == pin_color_of(pin.type)
        span == span_pin_cell(pin)
        w == pin_name_cell_width(span)
        sx == pin_start_x(x, column_index, span)
        name_rect == [shape |-> "rect", cell |-> "name", pin |-> e.pin,
                      x |-> sx, y |-> y, w |-> w, h |-> opts.row_height,
                      fill |-> conv_to_svg_color(pin_color[1])]
        name_text == [shape |-> "text", cell |-> "name", pin |-> e.pin,
                      x2 |-> 2 * sx + w, y2 |-> 2 * y + opts.row_height,
                      text |-> pin.pin,
                      fill |-> conv_to_svg_color(pin_color[2])]
        ux == usage_start_x(x, column_index)
        usage_color == usage_type_colors[pin.usage_type]
        usage_rect == [shape |-> "rect", cell |-> "usage", pin |-> e.pin,
                       x |-> ux, y |-> y, w |-> opts.usage_column_width,
                       h |-> opts.row_height,
                       fill |-> conv_to_svg_color(usage_color[1])]
        usage_text == [shape |-> "text", cell |-> "usage", pin |-> e.pin,
                       x2 |-> 2 * ux + opts.usage_column_width,
                       y2 |-> 2 * y + opts.row_height,
                       text |-> pin.usage,
                       fill |-> conv_to_svg_color(usage_color[2])]
    IN  IF pin.type = Missing                        \* pin_definition['type']
        THEN [elems |-> <<>>, err |-> "KeyError: 'type'"]
        ELSE IF pin.pin = Missing                    \* pin_definition['pin']
        THEN [elems |-> <<name_rect>>, err |-> "KeyError: 'pin'"]
        ELSE IF pin.usage = Missing                  \* pin_usage is None
        THEN [elems |-> <<name_rect, name_text>>, err |-> "none"]
        ELSE IF pin.usage_type \notin DOMAIN usage_type_colors
        THEN [elems |-> <<name_rect, name_text>>, err |-> "KeyError: usage_type"]
        ELSE [elems |-> <<name_rect, name_text, usage_rect, usage_text>>,
              err |-> "none"]

\* ------------------------------------------------------------------- inputs
PlainPin(has_num, n) ==
    [has_num |-> has_num, pin_number |-> n, pin |-> "P", type |-> "io",
     usage |-> Missing, usage_type |-> Missing]

\* well-formed pins without usage; pin_number is 1-based when present
PlainPins ==
    {PlainPin(FALSE, 0)} \cup {PlainPin(TRUE, n) : n \in 1..MaxNum}

\* what the renderer distinguishes in a pin
Kinds ==
    { [pin |-> "P", type |-> "io", usage |-> Missing, usage_type |-> Missing],
      [pin |-> "P", type |-> "io", usage |-> "TX", usage_type |-> "uart"],
      [pin |-> "P", type |-> "io", usage |-> "CLK", usage_type |-> "clock"],
      [pin |-> "P", type |-> Missing, usage |-> Missing, usage_type |-> Missing],
      [pin |-> Missing, type |-> "io", usage |-> Missing, usage_type |-> Missing] }

RenderPins ==
    { [has_num |-> n # 0, pin_number |-> n, pin |-> k.pin, type |-> k.type,
       usage |-> k.usage, usage_type |-> k.usage_type] :
         n \in 0..MaxRenderNum, k \in Kinds }

SeqUpTo(S, n) == UNION {[1..m -> S] : m \in 0..n}

DefaultOpts ==
    [pin_name_column_width |-> DefaultPinNameColumnWidth,
     usage_column_width |-> DefaultUsageColumnWidth,
     row_height |-> DefaultRowHeight,
     column_spacing |-> DefaultColumnSpacing,
     span_pin_name_without_usage |-> TRUE]

\* the defaults, and a table with narrower cells and a gap between columns
WidthChoices ==
    { [pin_name_column_width |-> DefaultPinNameColumnWidth,
       usage_column_width |-> DefaultUsageColumnWidth,
       row_height |-> DefaultRowHeight,
       column_spacing |-> DefaultColumnSpacing],
      [pin_name_column_width |-> 30, usage_column_width |-> 50,
       row_height |-> 10, column_spacing |-> 5] }

RenderOpts ==
    { [pin_name_column_width |-> c.pin_name_column_width,
       usage_column_width |-> c.usage_column_width,
       row_height |-> c.row_height,
       column_spacing |-> c.column_spacing,
       span_pin_name_without_usage |-> s] : c \in WidthChoices, s \in BOOLEAN }

\* ------------------------------------------------------------ state machine
Init ==
    /\ number_of_columns \in 1..MaxCols
    /\ number_of_rows \in 0..MaxRows
    /\ \/ /\ pin_definitions \in SeqUpTo(PlainPins, MaxPins)
          /\ opts = DefaultOpts
       \/ /\ pin_definitions \in SeqUpTo(RenderPins, MaxRenderPins)
          /\ opts \in RenderOpts
    /\ pin_map = <<>>
    /\ size = <<0, 0>>
    /\ drawing = <<>>
    /\ pc = "start"
    /\ i = 1
    /\ err = "none"

\* lines 47-52: number_of_rows defaults to ceil(len / columns); the drawing
\* is created with the total size; compute_pin_map starts with an empty dict
Prologue ==
    /\ pc = "start"
    /\ LET rows == IF number_of_rows # 0 THEN number_of_rows
                   ELSE (Len(pin_definitions) + number_of_columns - 1)
                            \div number_of_columns
       IN  /\ number_of_rows' = rows
           /\ size' = <<(column_width + opts.column_spacing) * number_of_columns
                           - opts.column_spacing,
                        opts.row_height * rows>>
    /\ pin_map' = <<>>
    /\ drawing' = <<>>
    /\ pc' = "explicit"
    /\ i' = 1
    /\ UNCHANGED <<pin_definitions, number_of_columns, opts, err>>

\* lines 37-38: one iteration of the loop over the pins with a pin_number
\* (or its end)
ExplicitPass ==
    /\ pc = "explicit"
    /\ LET j == NextExplicit(i)
       IN  IF j = 0
           THEN /\ pc' = "auto"
                /\ i' = 1
                /\ UNCHANGED <<pin_map, err>>
           ELSE LET r == assign_pin(pin_map, j, pin_definitions[j],
                                    number_of_columns, number_of_rows, FALSE)
                IN  /\ pin_map' = r.map
                    /\ i' = j + 1
                    /\ pc' = IF r.raised THEN "error" ELSE "explicit"
                    /\ err' = IF r.raised THEN "RuntimeError: No room..." ELSE err
    /\ UNCHANGED <<pin_definitions, number_of_columns, number_of_rows, opts,
                   size, drawing>>

\* lines 40-41: one iteration of the loop over the pins without pin_number
\* (or its end, line 43)
AutoPass ==
    /\ pc = "auto"
    /\ LET j == NextAuto(i)
       IN  IF j = 0
           THEN /\ pc' = "render"
                /\ i' = 1
                /\ UNCHANGED <<pin_map, err>>
           ELSE LET r == assign_pin(pin_map, j, pin_definitions[j],
                                    number_of_columns, number_of_rows, TRUE)
                IN  /\ pin_map' = r.map
                    /\ i' = IF r.raised THEN j ELSE j + 1
                    /\ pc' = IF r.raised THEN "error" ELSE "auto"
                    /\ err' = IF r.raised THEN "RuntimeError: No room..." ELSE err
    /\ UNCHANGED <<pin_definitions, number_of_columns, number_of_rows, opts,
                   size, drawing>>

\* lines 54-81: one iteration of the loop over pin_map.items(); after a
\* KeyError i stays at the entry that raised it
RenderPass ==
    /\ pc = "render"
    /\ i <= Len(pin_map)
    /\ LET r == RenderEntry(pin_map[i])
       IN  /\ drawing' = drawing \o r.elems
           /\ err' = r.err
           /\ pc' = IF r.err = "none" THEN "render" ELSE "error"
           /\ i' = IF r.err = "none" THEN i + 1 ELSE i
    /\ UNCHANGED <<pin_definitions, number_of_columns, number_of_rows, opts,
                   pin_map, size>>

\* line 83
Return ==
    /\ pc = "render"
    /\ i > Len(pin_map)
    /\ pc' = "done"
    /\ UNCHANGED <<pin_definitions, number_of_columns, number_of_rows, opts,
                   pin_map, size, drawing, i, err>>

Next == Prologue \/ ExplicitPass \/ AutoPass \/ RenderPass \/ Return

Spec == Init /\ [][Next]_vars

TypeOK ==
    /\ pc \in {"start", "explicit", "auto", "render", "done", "error"}
    /\ (pc = "error") = (err # "none")
    /\ \A k \in 1..Len(pin_map) : pin_map[k].pin \in 1..Len(pin_definitions)

\* ---------------------------------------------------- vocabulary of claims
NoRoomError == "RuntimeError: No room..."
MissingFieldErrors == {"KeyError: 'type'", "KeyError: 'pin'"}
UnknownUsageTypeError == "KeyError: usage_type"

\* compute_pin_map has returned its grid
Assigned == pc \in {"render", "done"} \/ (pc = "error" /\ err # NoRoomError)

\* the loop over the pins with a pin_number is over
ExplicitDone == pc \in {"auto", "render", "done", "error"}

PinIdx == 1..Len(pin_definitions)
ExplicitIdx == {j \in PinIdx : pin_definitions[j].has_num}
AutoIdx == {j \in PinIdx : ~pin_definitions[j].has_num}

\* the position the data model derives from a 1-based pin number
PositionOf(n) == <<(n - 1) \div number_of_rows, (n - 1) % number_of_rows>>

\* the k-th cell (k = 0, 1, ...) of the boustrophedon order
SnakeCell(k) ==
    LET c == k \div number_of_rows
    IN  <<c, IF c % 2 = 0 THEN k % number_of_rows
             ELSE number_of_rows - 1 - (k % number_of_rows)>>

\* the place of cell <<c, r>> in the boustrophedon order
SnakeRank(cell) ==
    cell[1] * number_of_rows
      + (IF cell[1] % 2 = 0 THEN cell[2] ELSE number_of_rows - 1 - cell[2])

PlacedPins(m) == {m[k].pin : k \in 1..Len(m)}

Rects == {k \in 1..Len(drawing) : drawing[k].shape = "rect"}
NameRects == {k \in Rects : drawing[k].cell = "name"}
UsageRects == {k \in Rects : drawing[k].cell = "usage"}

\* the grid column / row a pin was given
ColumnOfPin(p) == (CHOOSE e \in {pin_map[k] : k \in 1..Len(pin_map)} : e.pin = p).key[1]
RowOfPin(p) == (CHOOSE e \in {pin_map[k] : k \in 1..Len(pin_map)} : e.pin = p).key[2]

BaseOffset(c) ==
    (opts.pin_name_column_width + opts.usage_column_width + opts.column_spacing) * c

\* ------------------------------------------------------------------- claims

\* C1: every auto-placed pin ends up in a cell with 0 <= column < cols and
\* 0 <= row < rows (when all cols x rows cells are taken the call fails
\* instead of placing the pin).
C1_AutoPlacedInsideGrid ==
    \A k \in 1..Len(pin_map) :
        pin_map[k].pin \in AutoIdx =>
            /\ pin_map[k].key[1] \in 0..(number_of_columns - 1)
            /\ pin_map[k].key[2] \in 0..(number_of_rows - 1)

\* C2: when no pin has a pin_number and there are at most cols*rows pins, the
\* k-th pin is at the k-th cell of the boustrophedon order; the first pin is
\* at (0,0).
C2_SnakeOrder ==
    (Assigned /\ ExplicitIdx = {}
       /\ Len(pin_definitions) <= number_of_columns * number_of_rows)
    => /\ \A k \in 0..(Len(pin_definitions) - 1) :
              Lookup(pin_map, SnakeCell(k)) = k + 1
       /\ Len(pin_definitions) > 0 => Lookup(pin_map, <<0, 0>>) = 1

C2_Witness ==
    /\ pc = "done"
    /\ ExplicitIdx = {}
    /\ number_of_columns = 2
    /\ number_of_rows = 2
    /\ Len(pin_definitions) = 4
    /\ Lookup(pin_map, <<1, 1>>) = 3
    /\ Lookup(pin_map, <<1, 0>>) = 4

C3_Example == <<PlainPin(TRUE, 1), PlainPin(FALSE, 0), PlainPin(FALSE, 0)>>

\* no pin without pin_number is in the grid before the explicit pass is over
C3_ExplicitFirst ==
    ~ExplicitDone => PlacedPins(pin_map) \cap AutoIdx = {}

\* a step of the auto pass leaves every entry of the grid as it is, and the
\* entry it adds is at a cell that was no key while every cell before it in
\* boustrophedon order was one
C3_AutoStep ==
    pc = "auto" =>
        /\ Len(pin_map') >= Len(pin_map)
        /\ \A k \in 1..Len(pin_map) : pin_map'[k] = pin_map[k]
        /\ \A k \in (Len(pin_map) + 1)..Len(pin_map') :
              /\ pin_map'[k].pin \in AutoIdx
              /\ pin_map'[k].key \notin Keys(pin_map)
              /\ pin_map'[k].key[2] \in 0..(number_of_rows - 1)
              /\ \A c \in 0..pin_map'[k].key[1], r \in 0..(number_of_rows - 1) :
                    SnakeRank(<<c, r>>) < SnakeRank(pin_map'[k].key)
                        => <<c, r>> \in Keys(pin_map)

\* C3: the pins with a pin_number are all placed before any pin without one;
\* an auto-placed pin goes to the first cell in boustrophedon order that is no
\* grid key yet, so it replaces no pin placed before; with cols=2, rows=2 and
\* pins [A pin_number=1, B, C]: A at (0,0), B at (0,1), C at (1,1).
C3_AutoNeverReplaces ==
    /\ [](C3_ExplicitFirst)
    /\ [][C3_AutoStep]_vars
    /\ []((Assigned /\ pin_definitions = C3_Example
             /\ number_of_columns = 2 /\ number_of_rows = 2)
          => /\ Lookup(pin_map, <<0, 0>>) = 1
             /\ Lookup(pin_map, <<0, 1>>) = 2
             /\ Lookup(pin_map, <<1, 1>>) = 3
             /\ Len(pin_map) = 3)

C3_Witness ==
    /\ pc = "done"
    /\ pin_definitions = C3_Example
    /\ number_of_columns = 2
    /\ number_of_rows = 2
    /\ Lookup(pin_map, <<0, 1>>) = 2
    /\ Lookup(pin_map, <<1, 1>>) = 3

UniqueExplicitInRange ==
    /\ \A j \in ExplicitIdx :
          pin_definitions[j].pin_number \in 1..(number_of_columns * number_of_rows)
    /\ \A j, k \in ExplicitIdx :
          j # k => pin_definitions[j].pin_number # pin_definitions[k].pin_number

\* C4: when the explicit pin_numbers are pairwise distinct and within
\* 1..cols*rows, the returned grid maps the position of each pin_number n,
\* ((n-1) div rows, (n-1) mod rows), to the pin that carries n.
C4_ExplicitAtPosition ==
    (Assigned /\ UniqueExplicitInRange)
    => \A j \in ExplicitIdx :
          Lookup(pin_map, PositionOf(pin_definitions[j].pin_number)) = j

C4_Witness ==
    /\ pc = "done"
    /\ UniqueExplicitInRange
    /\ number_of_columns = 2
    /\ number_of_rows = 2
    /\ Cardinality(ExplicitIdx) = 2
    /\ Cardinality(AutoIdx) = 2
    /\ \E j \in ExplicitIdx : pin_definitions[j].pin_number = 4
    /\ \E j \in ExplicitIdx : pin_definitions[j].pin_number = 2
    /\ Lookup(pin_map, <<1, 1>>) \in ExplicitIdx

\* the pins that carry the explicit number n
Carriers(n) == {j \in ExplicitIdx : pin_definitions[j].pin_number = n}
Last(S) == CHOOSE j \in S : \A k \in S : k <= j

C5_LastWriterWins ==
    ExplicitDone =>
        \A n \in {pin_definitions[j].pin_number : j \in ExplicitIdx} :
            Cardinality(Carriers(n)) >= 2 =>
                /\ Lookup(pin_map, PositionOf(n)) = Last(Carriers(n))
                /\ \A j \in Carriers(n) \ {Last(Carriers(n))} :
                      j \notin PlacedPins(pin_map)

\* C5: when several pins carry the same explicit pin_number, no error is
\* raised for it, the cell of that number holds the last of them in input
\* order, and the earlier ones are in no cell.
C5_DuplicateNumbers ==
    /\ [](C5_LastWriterWins)
    /\ [][pc = "explicit" => pc' \in {"explicit", "auto"}]_vars

C5_Witness ==
    /\ pc = "done"
    /\ Cardinality(Carriers(2)) = 3
    /\ Cardinality(AutoIdx) = 1
    /\ Lookup(pin_map, PositionOf(2)) = Last(Carriers(2))
    /\ Len(pin_map) = 2

\* C6: when rendering aborts because a usage_type is no key of the usage
\* colour table, the drawing holds no element of the pin that caused it.
C6_NoElementOfFailingPin ==
    err = UnknownUsageTypeError =>
        \A k \in 1..Len(drawing) : drawing[k].pin # pin_map[i].pin

\* C7: a pin with a usage has a name rectangle of width pinNameColumnWidth
\* whatever spanPinNameWithoutUsage is; a pin without usage has the full
\* width and starts at the base column offset exactly when
\* spanPinNameWithoutUsage is true and has width pinNameColumnWidth
\* otherwise; a pin without usage has no usage rectangle.
C7_Spanning ==
    /\ \A k \in NameRects :
          LET d == drawing[k]
              pin == pin_definitions[d.pin]
              full == /\ d.w = opts.pin_name_column_width + opts.usage_column_width
                      /\ d.x = BaseOffset(ColumnOfPin(d.pin))
          IN  IF pin.usage # Missing
              THEN d.w = opts.pin_name_column_width
              ELSE /\ full <=> opts.span_pin_name_without_usage
                   /\ ~opts.span_pin_name_without_usage
                         => d.w = opts.pin_name_column_width
    /\ \A k \in UsageRects : pin_definitions[drawing[k].pin].usage # Missing

C7_Witness ==
    /\ pc = "done"
    /\ opts.span_pin_name_without_usage
    /\ \E k \in NameRects :
          /\ pin_definitions[drawing[k].pin].usage = Missing
          /\ drawing[k].w = opts.pin_name_column_width + opts.usage_column_width
    /\ \E k \in NameRects :
          /\ pin_definitions[drawing[k].pin].usage # Missing
          /\ drawing[k].w = opts.pin_name_column_width

\* C8: when a pin definition lacks 'pin' or 'type' the call fails before
\* grid assignment begins: at the failure no pin is in the grid and no
\* element is in the drawing.
C8_MalformedFailsBeforeAssignment ==
    err \in MissingFieldErrors => (pin_map = <<>> /\ drawing = <<>>)

\* the name rectangle drawn for pin p
NameRectOf(p) == drawing[CHOOSE k \in NameRects : drawing[k].pin = p]

\* C9: for a pin with a usage at grid column c, with base offset x: in
\* column 0 the name rectangle covers [x, x+pinNameColumnWidth) and the usage
\* rectangle [x+pinNameColumnWidth, x+pinNameColumnWidth+usageColumnWidth);
\* in a column c > 0 the usage rectangle covers [x, x+usageColumnWidth) and
\* the name rectangle [x+usageColumnWidth, x+usageColumnWidth+
\* pinNameColumnWidth); the two are disjoint, lie in the row band
\* [rowHeight*r, rowHeight*(r+1)) and cover exactly the column block.
C9_ColumnZeroSwap ==
    \A k \in UsageRects :
        LET u == drawing[k]
            c == ColumnOfPin(u.pin)
            r == RowOfPin(u.pin)
            x == BaseOffset(c)
            pw == opts.pin_name_column_width
            uw == opts.usage_column_width
        IN  /\ \E k2 \in NameRects : drawing[k2].pin = u.pin
            /\ LET n == NameRectOf(u.pin)
               IN  /\ n.w = pw /\ u.w = uw
                   /\ c = 0 => (n.x = x /\ u.x = x + pw)
                   /\ c > 0 => (u.x = x /\ n.x = x + uw)
                   \* disjoint
                   /\ n.x + n.w <= u.x \/ u.x + u.w <= n.x
                   \* the same row band
                   /\ n.y = opts.row_height * r /\ u.y = n.y
                   /\ n.h = opts.row_height /\ u.h = n.h
                   \* together exactly the column block [x, x + pw + uw)
                   /\ (IF n.x < u.x THEN n.x ELSE u.x) = x
                   /\ n.w + u.w = pw + uw
                   /\ n.x + n.w = u.x \/ u.x + u.w = n.x

C9_Witness ==
    /\ pc = "done"
    /\ opts.column_spacing > 0
    /\ \E k \in UsageRects : ColumnOfPin(drawing[k].pin) = 0
    /\ \E k \in UsageRects : ColumnOfPin(drawing[k].pin) = 1

\* C10: when the call returns normally and every explicit pin_number is in
\* 1..cols*rows, every rectangle of the drawing lies inside the canvas.
C10_RectanglesInsideCanvas ==
    (pc = "done"
       /\ \A j \in ExplicitIdx :
             pin_definitions[j].pin_number
                \in 1..(number_of_columns * number_of_rows))
    => \A k \in Rects :
          /\ 0 <= drawing[k].x
          /\ drawing[k].x + drawing[k].w <= size[1]
          /\ 0 <= drawing[k].y
          /\ drawing[k].y + drawing[k].h <= size[2]

====
